---------------------------- MODULE Spec2Model ----------------------------
(***************************************************************************)
(* Tick ingestion, tick store and pair analytics of the quant dashboard    *)
(* (src/backend/ingestion.py, src/backend/db.py, src/backend/analytics.py, *)
(* src/app.py).                                                            *)
(*                                                                         *)
(* Floating point values are modelled exactly: a float is NaN, +-inf or a  *)
(* rational in lowest terms; a square root is kept symbolic.  Time is an   *)
(* integer number of ticks of the clock.                                   *)
(***************************************************************************)
EXTENDS Integers, Sequences, FiniteSets, TLC

VARIABLES
    call,      \* the analytics call in progress: its function and arguments
    ret,       \* what that call returned (NotReturned before it returns)
    ledger,    \* the rows of table "ticks", in commit order
    task,      \* per ingestion task: its position in listen_to_binance
    loop,      \* which coroutine runs on the event loop ("idle": none)
    pipeline,  \* asyncio.run(main()): "running" or "closed"
    received,  \* per ingestion task: the messages recv() has returned
    reader     \* the dashboard thread's load_ticks call

vars == <<call, ret, ledger, task, loop, pipeline, received, reader>>

storeVars == <<ledger, task, loop, pipeline, received, reader>>

callVars == <<call, ret>>

(***************************************************************************)
(* Floats.                                                                 *)
(***************************************************************************)
Abs(i) == IF i < 0 THEN -i ELSE i

RECURSIVE GCD(_, _)
GCD(a, b) == IF b = 0 THEN a ELSE GCD(b, a % b)

NaN == [k |-> "nan", n |-> 0, d |-> 0]

Inf(sign) == [k |-> "inf", n |-> sign, d |-> 0]

\* The rational n/d (d # 0) in lowest terms with a positive denominator.
Num(n, d) ==
    LET g == GCD(Abs(n), Abs(d))
        s == IF d < 0 THEN -1 ELSE 1
    IN  [k |-> "num", n |-> (s * n) \div g, d |-> Abs(d) \div g]

R(i) == Num(i, 1)

IsNaN(x) == x.k = "nan"

IsNum(x) == x.k = "num"

RAdd(a, b) == IF IsNum(a) /\ IsNum(b) THEN Num(a.n * b.d + b.n * a.d, a.d * b.d) ELSE NaN

RSub(a, b) == IF IsNum(a) /\ IsNum(b) THEN Num(a.n * b.d - b.n * a.d, a.d * b.d) ELSE NaN

RMul(a, b) == IF IsNum(a) /\ IsNum(b) THEN Num(a.n * b.n, a.d * b.d) ELSE NaN

\* IEEE division: x/0 is NaN for x = 0 and +-inf otherwise; nothing is raised.
RDiv(a, b) ==
    IF ~(IsNum(a) /\ IsNum(b)) THEN NaN
    ELSE IF b.n = 0 THEN (IF a.n = 0 THEN NaN ELSE Inf(IF a.n < 0 THEN -1 ELSE 1))
    ELSE Num(a.n * b.d, a.d * b.n)

\* Comparisons with NaN are false.
RLt(a, b) == IsNum(a) /\ IsNum(b) /\ a.n * b.d < b.n * a.d

RLe(a, b) == IsNum(a) /\ IsNum(b) /\ a.n * b.d <= b.n * a.d

\* The square root of a rational >= 0, kept symbolic unless it is 0.
Sqrt(v) ==
    IF ~IsNum(v) \/ v.n < 0 THEN NaN
    ELSE IF v.n = 0 THEN R(0)
    ELSE [k |-> "sqrt", n |-> v.n, d |-> v.d]

\* a / s for s a float or a symbolic square root: the quotient a/sqrt(v) is
\* kept as the pair (a, v).
DivBy(a, s) ==
    IF s.k = "sqrt"
    THEN (IF IsNum(a) THEN [k |-> "quot", num |-> a, rad |-> Num(s.n, s.d)] ELSE NaN)
    ELSE LET q == RDiv(a, s) IN [k |-> q.k, num |-> q, rad |-> R(1)]

Undefined(z) == z.k = "nan"

RECURSIVE SumSeq(_)
SumSeq(s) == IF s = <<>> THEN R(0) ELSE RAdd(s[1], SumSeq(Tail(s)))

Range(s) == {s[i] : i \in DOMAIN s}


(***************************************************************************)
(* The feed (src/backend/ingestion.py).  A message is the text recv()      *)
(* returns: no JSON at all, or a JSON object whose members "e", "p", "q",  *)
(* "T" and "s" are each present or absent.                                 *)
(***************************************************************************)
MaxRecv == 2

MaxLimit == 2

Absent == "<absent>"

NoInt == [t |-> "absent", v |-> 0]

IntField(i) == [t |-> "int", v |-> i]

JsonObject(e, p, q, T, sym) == [shape |-> "object", e |-> e, p |-> p, q |-> q, T |-> T, s |-> sym]

NotJson == [shape |-> "text", e |-> Absent, p |-> Absent, q |-> Absent, T |-> NoInt, s |-> Absent]

TradeTimes == {1, 2}

TradeMessages == {JsonObject("trade", p, "1.5", IntField(T), "SYM") : p \in {"1", "2"}, T \in TradeTimes}

OtherEvents == {JsonObject("aggTrade", "1", "1.5", IntField(1), "SYM")}

\* No JSON; a trade without "p"; one whose "q" is no number; one without "T".
MalformedMessages ==
    { NotJson,
      JsonObject("trade", Absent, "1.5", IntField(1), "SYM"),
      JsonObject("trade", "1", "abc", IntField(1), "SYM"),
      JsonObject("trade", "1", "1.5", NoInt, "SYM") }

\* A trade with p, q and T in order but without "s", which only the log line reads.
UnnamedTrades == {JsonObject("trade", "2", "1.5", IntField(2), Absent)}

FeedMessages == TradeMessages \cup OtherEvents \cup MalformedMessages \cup UnnamedTrades

\* float(str): the decimal strings of the feed; anything else is a ValueError.
DecimalStrings == {"1", "2", "1.5"}

ParseFloat(str) == CASE str = "1" -> R(1) [] str = "2" -> R(2) [] str = "1.5" -> Num(3, 2)

\* datetime.fromtimestamp(T / 1000, tz=utc), in microseconds since the epoch.
FromTimestamp(T) == T * 1000

\* json.loads raises on text that is no JSON.
JsonLoads(m) == [ok |-> m.shape # "text", data |-> m]

IsTrade(data) == data.shape = "object" /\ data.e = "trade"

\* float(data["p"]), float(data["q"]), data["T"] / 1000: KeyError on an absent
\* member, ValueError on an unparsable string.
ParseRaises(data) ==
    \/ data.p = Absent \/ data.p \notin DecimalStrings
    \/ data.q = Absent \/ data.q \notin DecimalStrings
    \/ data.T.t # "int"

ParsedTick(data) == [price |-> ParseFloat(data.p), qty |-> ParseFloat(data.q), ts |-> FromTimestamp(data.T.v)]

\* The log line reads data['s'] after the insert.
PrintRaises(data) == data.s = Absent

(***************************************************************************)
(* The store (src/backend/db.py).                                          *)
(***************************************************************************)
Tasks == {"btcusdt", "ethusdt"}

QuerySymbols == {"btcusdt", "ETHUSDT", "xrpusdt"}

Lower(symbol) ==
    CASE symbol = "BTCUSDT" -> "btcusdt"
      [] symbol = "ETHUSDT" -> "ethusdt"
      [] OTHER -> symbol

\* Tick(ts=ts, symbol=symbol.lower(), price=float(price), qty=float(qty)); the
\* autoincrement id is given at commit.
NewTick(symbol, price, qty, ts) == [ts |-> ts, symbol |-> Lower(symbol), price |-> price, qty |-> qty]

CommitLosesARow(rows, tick) ==
    IF rows # <<>> /\ rows[Len(rows)].symbol # tick.symbol
    THEN Append(SubSeq(rows, 1, Len(rows) - 1), [id |-> Len(rows)] @@ tick)
    ELSE Append(rows, [id |-> Len(rows) + 1] @@ tick)

\* session.commit(): one INSERT, one row.
CommitRow(rows, tick) == Append(rows, [id |-> Len(rows) + 1] @@ tick)

Matching(rows, symbol) == {i \in DOMAIN rows : rows[i].symbol = Lower(symbol)}

Min(a, b) == IF a < b THEN a ELSE b

\* The arrangements of the rows at indices K in which ts never increases
\* (desc) or never decreases; rows of equal ts come in any order.
Arrangements(rows, K, desc) ==
    LET n == Cardinality(K)
    IN  { [i \in 1..n |-> rows[f[i]]] :
            f \in { g \in [1..n -> K] :
                      /\ \A i, j \in 1..n : i # j => g[i] # g[j]
                      /\ \A i \in 1..(n - 1) :
                            IF desc THEN rows[g[i]].ts >= rows[g[i + 1]].ts
                                    ELSE rows[g[i]].ts <= rows[g[i + 1]].ts } }

FetchIgnoresOrderBy(rows, symbol, limit) ==
    LET M == Matching(rows, symbol)
        n == Min(limit, Cardinality(M))
    IN  UNION { Arrangements(rows, K, TRUE) : K \in {X \in SUBSET M : Cardinality(X) = n} }

\* SELECT ... WHERE symbol = :s ORDER BY ts DESC LIMIT :limit.  SQL leaves the
\* order, and the cut, among rows of equal ts open: every result it allows.
fetch_recent_ticks(rows, symbol, limit) ==
    LET M == Matching(rows, symbol)
        n == Min(limit, Cardinality(M))
    IN  UNION { Arrangements(rows, K, TRUE) :
                  K \in {X \in SUBSET M : /\ Cardinality(X) = n
                                          /\ \A i \in X, j \in M \ X : rows[j].ts <= rows[i].ts} }

FrameRow(r) == [ts |-> r.ts, price |-> r.price, qty |-> r.qty]

LoadTicksKeepsQueryOrder(fetched) == {[i \in DOMAIN fetched |-> FrameRow(fetched[i])]}

\* load_ticks after the query: the frame of (ts, price, qty), sort_index()
\* ascending (not a stable sort: rows of equal ts in any order).
load_ticks(fetched) ==
    IF fetched = <<>> THEN {<<>>}
    ELSE LET frame == [i \in DOMAIN fetched |-> FrameRow(fetched[i])]
         IN  Arrangements(frame, DOMAIN frame, FALSE)

(***************************************************************************)
(* listen_to_binance, one task per symbol, both on the event loop of the   *)
(* ingestion thread (start_ingestion); the dashboard thread reads.         *)
(***************************************************************************)
NoMessage == [shape |-> "none", e |-> Absent, p |-> Absent, q |-> Absent, T |-> NoInt, s |-> Absent]

NoTick == [ts |-> 0, symbol |-> "", price |-> NaN, qty |-> NaN]

Awaiting == [pc |-> "recv", data |-> NoMessage, tick |-> NoTick]

Ended(how) == [pc |-> how, data |-> NoMessage, tick |-> NoTick]

IdleReader == [pc |-> "idle", symbol |-> "", limit |-> 0, began |-> 0, seen |-> 0, rows |-> <<>>, df |-> <<>>]

NoCall == [fn |-> "none"]

NotReturned == [done |-> FALSE, val |-> <<>>]

\* A call that returned v.  obj tells which object v is: "new" for one the
\* function built, or the name of the parameter whose object it handed back.
Returned(v) == [done |-> TRUE, val |-> v, obj |-> "new"]

ReturnedArgument(v, name) == [done |-> TRUE, val |-> v, obj |-> name]

InitStore ==
    /\ ledger = <<>>
    /\ task = [s \in Tasks |-> Awaiting]
    /\ loop = "idle"
    /\ pipeline = "running"
    /\ received = [s \in Tasks |-> <<>>]
    /\ reader = IdleReader

Init == InitStore /\ call = NoCall /\ ret = NotReturned

TotalReceived == Len(received["btcusdt"]) + Len(received["ethusdt"])

\* message = await websocket.recv(): the task resumes with the next message.
Recv(s) ==
    /\ pipeline = "running" /\ loop = "idle" /\ task[s].pc = "recv"
    /\ TotalReceived < MaxRecv
    /\ \E m \in FeedMessages :
         /\ task' = [task EXCEPT ![s] = [pc |-> "loads", data |-> m, tick |-> NoTick]]
         /\ received' = [received EXCEPT ![s] = Append(@, m)]
    /\ loop' = s
    /\ UNCHANGED <<ledger, pipeline, reader, callVars>>

\* Nothing in the loop body catches: an exception ends the coroutine.  The
\* ended task keeps the message it was handling (none: recv() itself raised).
Raise(s) ==
    /\ task' = [task EXCEPT ![s] = [pc |-> "failed", data |-> @.data, tick |-> NoTick]]
    /\ loop' = "idle"

\* json.loads(message) raises.
LoadsRaises(s) ==
    /\ loop = s /\ task[s].pc = "loads"
    /\ ~JsonLoads(task[s].data).ok
    /\ Raise(s)
    /\ UNCHANGED <<ledger, pipeline, received, reader, callVars>>

\* data.get("e") != "trade": back to recv().
SkipNonTrade(s) ==
    /\ loop = s /\ task[s].pc = "loads"
    /\ JsonLoads(task[s].data).ok /\ ~IsTrade(task[s].data)
    /\ task' = [task EXCEPT ![s] = Awaiting]
    /\ loop' = "idle"
    /\ UNCHANGED <<ledger, pipeline, received, reader, callVars>>

\* float(data["p"]), float(data["q"]) or data["T"] / 1000 raises.
ParseFails(s) ==
    /\ loop = s /\ task[s].pc = "loads"
    /\ IsTrade(task[s].data) /\ ParseRaises(task[s].data)
    /\ Raise(s)
    /\ UNCHANGED <<ledger, pipeline, received, reader, callVars>>

\* price, qty and ts are parsed; insert_tick adds the Tick to its session.
SessionAdd(s) ==
    /\ loop = s /\ task[s].pc = "loads"
    /\ IsTrade(task[s].data) /\ ~ParseRaises(task[s].data)
    /\ LET t == ParsedTick(task[s].data)
       IN  task' = [task EXCEPT ![s] = [pc |-> "commit", data |-> @.data,
                                        tick |-> NewTick(s, t.price, t.qty, t.ts)]]
    /\ UNCHANGED <<ledger, loop, pipeline, received, reader, callVars>>

\* session.commit()
Commit(s) ==
    /\ loop = s /\ task[s].pc = "commit"
    /\ ledger' = CommitRow(ledger, task[s].tick)
    /\ task' = [task EXCEPT ![s] = [pc |-> "print", data |-> @.data, tick |-> NoTick]]
    /\ UNCHANGED <<loop, pipeline, received, reader, callVars>>

\* print(f"STORED | {data['s']} | ..."), then back to recv().
PrintStored(s) ==
    /\ loop = s /\ task[s].pc = "print"
    /\ ~PrintRaises(task[s].data)
    /\ task' = [task EXCEPT ![s] = Awaiting]
    /\ loop' = "idle"
    /\ UNCHANGED <<ledger, pipeline, received, reader, callVars>>

PrintFails(s) ==
    /\ loop = s /\ task[s].pc = "print"
    /\ PrintRaises(task[s].data)
    /\ Raise(s)
    /\ UNCHANGED <<ledger, pipeline, received, reader, callVars>>

\* The connection drops: recv() raises ConnectionClosed.
ConnectionLost(s) ==
    /\ pipeline = "running" /\ loop = "idle" /\ task[s].pc = "recv"
    /\ Raise(s)
    /\ UNCHANGED <<ledger, pipeline, received, reader, callVars>>

GatherCancelsNobody(tasks) == tasks

\* What asyncio.run does to the tasks still pending when main() has raised.
CancelPending(tasks) == [s \in Tasks |-> IF tasks[s].pc = "recv" THEN Ended("cancelled") ELSE tasks[s]]

\* await asyncio.gather(a, b) re-raises the first exception of a or b in
\* main(); asyncio.run(main()) then cancels every task left and closes the
\* loop, and the ingestion thread ends.
GatherRaises ==
    /\ pipeline = "running" /\ loop = "idle"
    /\ \E s \in Tasks : task[s].pc = "failed"
    /\ pipeline' = "closed"
    /\ task' = CancelPending(task)
    /\ UNCHANGED <<ledger, loop, received, reader, callVars>>

\* load_ticks(symbol) is called on the dashboard thread.  The code passes
\* limit=10000 to fetch_recent_ticks; the model takes the limit as an input.
ReadBegin ==
    /\ reader.pc = "idle"
    /\ \E symbol \in QuerySymbols, limit \in 1..MaxLimit :
         reader' = [IdleReader EXCEPT !.pc = "query", !.symbol = symbol, !.limit = limit,
                                      !.began = Len(ledger)]
    /\ UNCHANGED <<ledger, task, loop, pipeline, received, callVars>>

StaleSnapshot(rows, began) == SubSeq(rows, 1, IF began > 0 THEN began - 1 ELSE 0)

\* The SELECT sees the rows committed when it runs.
Snapshot(rows, began) == rows

\* rows = fetch_recent_ticks(db, symbol, limit)
ReadQuery ==
    /\ reader.pc = "query"
    /\ \E rows \in fetch_recent_ticks(Snapshot(ledger, reader.began), reader.symbol, reader.limit) :
         reader' = [reader EXCEPT !.pc = "frame", !.rows = rows, !.seen = Len(ledger)]
    /\ UNCHANGED <<ledger, task, loop, pipeline, received, callVars>>

\* The rest of load_ticks: the empty frame, or the frame sorted by ts.
ReadFrame ==
    /\ reader.pc = "frame"
    /\ \E df \in load_ticks(reader.rows) : reader' = [reader EXCEPT !.pc = "done", !.df = df]
    /\ UNCHANGED <<ledger, task, loop, pipeline, received, callVars>>

ReadDone ==
    /\ reader.pc = "done"
    /\ reader' = IdleReader
    /\ UNCHANGED <<ledger, task, loop, pipeline, received, callVars>>

Next ==
    \/ \E s \in Tasks : Recv(s)
    \/ \E s \in Tasks : LoadsRaises(s)
    \/ \E s \in Tasks : SkipNonTrade(s)
    \/ \E s \in Tasks : ParseFails(s)
    \/ \E s \in Tasks : SessionAdd(s)
    \/ \E s \in Tasks : Commit(s)
    \/ \E s \in Tasks : PrintStored(s)
    \/ \E s \in Tasks : PrintFails(s)
    \/ \E s \in Tasks : ConnectionLost(s)
    \/ GatherRaises
    \/ ReadBegin
    \/ ReadQuery
    \/ ReadFrame
    \/ ReadDone

Spec == Init /\ [][Next]_vars

(***************************************************************************)
(* C2, C7, C8, C10: the store and the ingestion tasks.                     *)
(***************************************************************************)
RowsOf(rows, symbol) == SelectSeq(rows, LAMBDA r : r.symbol = symbol)

\* A trade event whose p and q are decimal strings and whose T is an integer.
WellFormedTrade(m) ==
    /\ m.shape = "object" /\ m.e = "trade"
    /\ m.p \in DecimalStrings /\ m.q \in DecimalStrings /\ m.T.t = "int"

\* The tick a well-formed trade message of symbol s stands for.
TickOf(m, s) == [ts |-> m.T.v * 1000, symbol |-> s, price |-> ParseFloat(m.p), qty |-> ParseFloat(m.q)]

TicksOf(msgs, s) ==
    LET good == SelectSeq(msgs, WellFormedTrade)
    IN  [i \in DOMAIN good |-> TickOf(good[i], s)]

WithoutId(r) == [ts |-> r.ts, symbol |-> r.symbol, price |-> r.price, qty |-> r.qty]

Stored(s) == LET own == RowsOf(ledger, s) IN [i \in DOMAIN own |-> WithoutId(own[i])]

Last(q) == q[Len(q)]

Front(q) == SubSeq(q, 1, Len(q) - 1)

\* The rows of the store, as of the query, that the reader's symbol selects.
SeenRows == SubSeq(ledger, 1, reader.seen)

\* C2: after any sequence of appends, also of ticks older than those stored,
\* load_ticks returns in ascending timestamp order the at most `limit` ticks
\* of the symbol with the greatest timestamps, none of another symbol, and
\* the empty frame when the symbol has no tick.
C2_RecentAscending ==
    reader.pc = "done" =>
        LET M  == Matching(SeenRows, reader.symbol)
            df == reader.df
        IN  /\ Len(df) = Min(reader.limit, Cardinality(M))
            /\ \A i, j \in DOMAIN df : i < j => df[i].ts <= df[j].ts
            /\ \E f \in [DOMAIN df -> M] :
                 /\ \A i, j \in DOMAIN df : i # j => f[i] # f[j]
                 /\ \A i \in DOMAIN df : df[i] = FrameRow(SeenRows[f[i]])
                 /\ \A i \in DOMAIN df, j \in M \ {f[k] : k \in DOMAIN df} :
                        SeenRows[j].ts <= df[i].ts
            /\ (M = {} => df = <<>>)

\* A tick older than the one stored before it was appended, and the read
\* returned only the newer of the two.
C2_Witness ==
    /\ reader.pc = "done" /\ reader.limit = 1 /\ reader.seen = 2
    /\ ledger[1].symbol = ledger[2].symbol /\ ledger[2].ts < ledger[1].ts
    /\ reader.df = <<FrameRow(ledger[1])>>

\* C7 (as claimed): a message that is no JSON, a trade without or with an
\* unparsable p, q or T, and a message whose "e" is not "trade" are skipped
\* without ending listen_to_binance, and the store holds one tick per
\* well-formed trade message, in arrival order.
C7_MalformedSkipped ==
    \A s \in Tasks :
        /\ ~(task[s].pc = "failed" /\ task[s].data # NoMessage /\ ~WellFormedTrade(task[s].data))
        /\ task[s].pc = "recv" => Stored(s) = TicksOf(received[s], s)

\* C10 (as claimed): when one symbol's task has ended with a failure, the
\* other symbol's task is not cancelled.
C10_TasksIndependent ==
    \A s, o \in Tasks : (s # o /\ task[s].pc = "failed") => task[o].pc # "cancelled"

\* Every stored row is exactly the tick of one well-formed trade its own task
\* received, in the order received; only the tick being inserted is missing.
C8_NoTickLost ==
    \A s \in Tasks :
        LET due == TicksOf(received[s], s)
            inserting == task[s].pc \in {"loads", "commit"} /\ WellFormedTrade(task[s].data)
        IN  /\ Stored(s) = IF inserting THEN Front(due) ELSE due
            /\ \A i \in DOMAIN ledger : ledger[i].id = i /\ ledger[i].symbol \in Tasks

\* A read returns whole rows of the store, and every row of its symbol that
\* was committed before the read began unless `limit` newer rows displace it.
C8_ReadsCommitted ==
    reader.pc \in {"frame", "done"} =>
        /\ \A i \in DOMAIN reader.rows :
              /\ reader.rows[i].id \in DOMAIN ledger
              /\ reader.rows[i] = ledger[reader.rows[i].id]
        /\ \A j \in 1..reader.began :
              ledger[j].symbol = Lower(reader.symbol) =>
                  \/ \E i \in DOMAIN reader.rows : reader.rows[i].id = j
                  \/ /\ Len(reader.rows) = reader.limit
                     /\ \A i \in DOMAIN reader.rows : ledger[j].ts <= reader.rows[i].ts

\* A step leaves the ledger as it is or adds one row at its end.
LedgerGrows ==
    \/ ledger' = ledger
    \/ Len(ledger') = Len(ledger) + 1 /\ SubSeq(ledger', 1, Len(ledger)) = ledger

\* C8: under every interleaving of the two ingestion tasks' insert_tick and
\* the reader's fetch_recent_ticks, each append is one atomic one-row write:
\* no tick is lost, altered, duplicated or mixed, the ledger only grows, and
\* a read returns whole ticks, among them those committed before it began.
C8_AtomicAppends == [](C8_NoTickLost /\ C8_ReadsCommitted) /\ [][LedgerGrows]_vars

\* Both tasks have committed, one of them between the begin of a read and its
\* query, and the read returned a row.
C8_Witness ==
    /\ reader.pc = "done" /\ reader.began = 1 /\ reader.seen = 2
    /\ ledger[1].symbol # ledger[2].symbol
    /\ Len(reader.rows) = 1

(***************************************************************************)
(* Bounds of the analytics inputs.                                         *)
(***************************************************************************)
MaxTicks == 3

MaxTs == 2

Prices == {R(1), R(2), R(3)}

Quantities == {R(1), R(2)}

\* Bucket widths in clock ticks; each divides a day, as "1s", "1min" and
\* "5min" (timeframe_map) do, so pandas' day-anchored bins are epoch-aligned.
Intervals == {1, 2}

(***************************************************************************)
(* resample_candles: df["price"].resample(tf).ohlc(), df["qty"]            *)
(* .resample(tf).sum(), joined, rows with a NaN dropped.                   *)
(***************************************************************************)
\* Resampler sorts a non-monotonic index with a stable sort before binning.
RECURSIVE InsertByTs(_, _)
InsertByTs(sorted, t) ==
    IF sorted = <<>> THEN <<t>>
    ELSE IF sorted[Len(sorted)].ts <= t.ts THEN Append(sorted, t)
    ELSE Append(InsertByTs(SubSeq(sorted, 1, Len(sorted) - 1), t), sorted[Len(sorted)])

RECURSIVE SortByTs(_)
SortByTs(df) ==
    IF df = <<>> THEN <<>>
    ELSE InsertByTs(SortByTs(SubSeq(df, 1, Len(df) - 1)), df[Len(df)])

ResampleSortKeepsArrivalOrder(df) == df

ResampleSort(df) == SortByTs(df)

\* The left edge of the bin holding ts.
Bucket(ts, interval) == (ts \div interval) * interval

RECURSIVE MaxOf(_)
MaxOf(s) ==
    IF Len(s) = 1 THEN s[1]
    ELSE LET m == MaxOf(Tail(s)) IN IF RLt(m, s[1]) THEN s[1] ELSE m

RECURSIVE MinOf(_)
MinOf(s) ==
    IF Len(s) = 1 THEN s[1]
    ELSE LET m == MinOf(Tail(s)) IN IF RLt(s[1], m) THEN s[1] ELSE m

InBin(sorted, b, interval) == SelectSeq(sorted, LAMBDA t : b <= t.ts /\ t.ts < b + interval)

\* .ohlc() of one bin: NaN in all four columns when the bin holds no tick.
Ohlc(sorted, b, interval) ==
    LET in == InBin(sorted, b, interval)
        p  == [i \in DOMAIN in |-> in[i].price]
    IN  IF in = <<>>
        THEN [open |-> NaN, high |-> NaN, low |-> NaN, close |-> NaN]
        ELSE [open |-> p[1], high |-> MaxOf(p), low |-> MinOf(p), close |-> p[Len(p)]]

\* .sum() of one bin: 0 when the bin holds no tick.
VolumeSum(sorted, b, interval) ==
    LET in == InBin(sorted, b, interval)
    IN  SumSeq([i \in DOMAIN in |-> in[i].qty])

HasNaN(c) == IsNaN(c.open) \/ IsNaN(c.high) \/ IsNaN(c.low) \/ IsNaN(c.close) \/ IsNaN(c.volume)

DropNaRows(rows) == SelectSeq(rows, LAMBDA c : ~HasNaN(c))

resample_candles(df, interval) ==
    IF df = <<>> THEN <<>>
    ELSE LET sorted == ResampleSort(df)
             first  == Bucket(sorted[1].ts, interval)
             last   == Bucket(sorted[Len(sorted)].ts, interval)
             nbins  == ((last - first) \div interval) + 1
             joined == [j \in 1..nbins |->
                          LET b == first + (j - 1) * interval
                              o == Ohlc(sorted, b, interval)
                          IN  [ts |-> b, open |-> o.open, high |-> o.high, low |-> o.low,
                               close |-> o.close, volume |-> VolumeSum(sorted, b, interval)]]
         IN  DropNaRows(joined)

RECURSIVE SeqsUpTo(_, _)
SeqsUpTo(S, n) ==
    IF n = 0 THEN {<<>>}
    ELSE LET shorter == SeqsUpTo(S, n - 1)
         IN  shorter \cup {Append(s, x) : s \in {q \in shorter : Len(q) = n - 1}, x \in S}

TickRows == [ts : 0..MaxTs, price : Prices, qty : Quantities]

InitResample ==
    /\ InitStore
    /\ call \in [fn : {"resample_candles"}, df : SeqsUpTo(TickRows, MaxTicks), timeframe : Intervals]
    /\ ret = NotReturned

ResampleCandles ==
    /\ call.fn = "resample_candles"
    /\ ~ret.done
    /\ ret' = Returned(resample_candles(call.df, call.timeframe))
    /\ UNCHANGED <<call, storeVars>>

SpecResample == InitResample /\ [][ResampleCandles]_vars


(***************************************************************************)
(* Rolling statistics (pandas rolling(window): min_periods = window, NaN    *)
(* observations do not count; std and corr use ddof = 1).                  *)
(***************************************************************************)
MaxLen == 4

MaxWindow == 3

Closes == {R(1), R(2), R(3)}

Max(a, b) == IF a < b THEN b ELSE a

\* The observations the window ending at i holds.
WindowPastStart(x, i, window) == SubSeq(x, Max(1, i - window), i)

Window(x, i, window) == SubSeq(x, Max(1, i - window + 1), i)

Valid(win) == SelectSeq(win, IsNum)

RollingMean(x, i, window) ==
    LET obs == Valid(Window(x, i, window))
    IN  IF Len(obs) < window THEN NaN ELSE RDiv(SumSeq(obs), R(Len(obs)))

SumSqDev(obs) ==
    LET m == RDiv(SumSeq(obs), R(Len(obs)))
    IN  SumSeq([j \in DOMAIN obs |-> RMul(RSub(obs[j], m), RSub(obs[j], m))])

PopulationVar(x, i, window) ==
    LET obs == Valid(Window(x, i, window))
    IN  IF Len(obs) < window THEN NaN ELSE RDiv(SumSqDev(obs), R(Len(obs)))

\* Sample variance: NaN when the window holds one observation (n - ddof = 0).
RollingVar(x, i, window) ==
    LET obs == Valid(Window(x, i, window))
    IN  IF Len(obs) < window \/ Len(obs) - 1 <= 0 THEN NaN
        ELSE RDiv(SumSqDev(obs), R(Len(obs) - 1))

RollingStd(x, i, window) == Sqrt(RollingVar(x, i, window))

\* compute_zscore: the candles with the column zscore = (close - mean) / std.
compute_zscore(closes, window) ==
    [i \in DOMAIN closes |->
        [close |-> closes[i],
         zscore |-> DivBy(RSub(closes[i], RollingMean(closes, i, window)),
                          RollingStd(closes, i, window))]]

InitZscore ==
    /\ InitStore
    /\ call \in [fn : {"compute_zscore"}, closes : SeqsUpTo(Closes, MaxLen), window : 1..MaxWindow]
    /\ ret = NotReturned

ComputeZscore ==
    /\ call.fn = "compute_zscore"
    /\ ~ret.done
    /\ ret' = Returned(compute_zscore(call.closes, call.window))
    /\ UNCHANGED <<call, storeVars>>

SpecZscore == InitZscore /\ [][ComputeZscore]_vars

(***************************************************************************)
(* C3.                                                                     *)
(***************************************************************************)
Mean(obs) == RDiv(SumSeq(obs), R(Len(obs)))

\* The sample standard deviation of obs squared: sum of squared deviations
\* over n - 1, which is 0/0 for a single observation.
SampleVariance(obs) ==
    RDiv(SumSeq([j \in DOMAIN obs |-> RMul(RSub(obs[j], Mean(obs)), RSub(obs[j], Mean(obs)))]),
         R(Len(obs) - 1))

\* out is S with a z-score that is undefined at every index i < w-1 and on
\* every window of zero sample standard deviation, and elsewhere is the
\* defined value (close[i] - mean) / sample-stddev over the observations
\* i-w+1..i, whatever the observations outside that window are.
ZscoreContract(S, w, out) ==
    /\ Len(out) = Len(S)
    /\ \A i \in DOMAIN S :
          LET z   == out[i].zscore
              win == SubSeq(S, i - w + 1, i)
          IN  /\ out[i].close = S[i]
              /\ IF i - 1 < w - 1 THEN Undefined(z)
                 ELSE IF SampleVariance(win) = R(0) THEN Undefined(z)
                 ELSE /\ ~Undefined(z)
                      /\ z = [k |-> "quot", num |-> RSub(S[i], Mean(win)), rad |-> SampleVariance(win)]
                      /\ \A S2 \in SeqsUpTo(Closes, Len(S)) :
                             (Len(S2) = Len(S) /\ SubSeq(S2, i - w + 1, i) = win)
                                 => compute_zscore(S2, w)[i].zscore = z

\* C3 (as claimed, for every w >= 1): the z-score is undefined at every index
\* i < w-1 and wherever the trailing w-point window has zero sample standard
\* deviation, and at every other index is the defined value
\* (close[i] - mean) / sample-stddev of the observations i-w+1..i alone.
C3_ZscoreEveryWindow ==
    (call.fn = "compute_zscore" /\ ret.done) =>
        ZscoreContract(call.closes, call.window, ret.val)

\* C3 (amended): the same for every window w >= 2.  (For w = 1 the sample
\* standard deviation of a window is 0/0, not zero, and every z-score is
\* undefined.)
C3_ZscoreWindowAtLeastTwo ==
    (call.fn = "compute_zscore" /\ ret.done /\ call.window >= 2) =>
        ZscoreContract(call.closes, call.window, ret.val)

\* A series whose z-score is undefined before the window fills, undefined on
\* a flat window and defined after it.
C3_Witness ==
    /\ call.fn = "compute_zscore" /\ ret.done /\ call.window = 2
    /\ Len(ret.val) = 4
    /\ Undefined(ret.val[1].zscore)
    /\ call.closes[1] = call.closes[2] /\ Undefined(ret.val[2].zscore)
    /\ ~Undefined(ret.val[3].zscore) /\ ret.val[3].zscore.k = "quot"
    /\ call.closes[4] # call.closes[1]

(***************************************************************************)
(* Candle tables of the pair analytics: rows (ts, close) of strictly       *)
(* ascending ts, as resample_candles returns them.                         *)
(***************************************************************************)
MaxT == 4

PairCloses == {R(1), R(2)}

KthSmallest(S, k) == CHOOSE x \in S : Cardinality({y \in S : y < x}) = k - 1

TableOf(S, f) == [i \in 1..Cardinality(S) |-> [ts |-> KthSmallest(S, i), close |-> f[KthSmallest(S, i)]]]

\* The tables of one row or more (the dashboard stops on an empty table).
Tables(V) == UNION { {TableOf(S, f) : f \in [S -> V]} : S \in (SUBSET (1..MaxT)) \ {{}} }

Index(df) == {df[i].ts : i \in DOMAIN df}

\* df["close"] at label ts; NaN when the index has no such label.
At(df, ts) == IF ts \in Index(df) THEN (CHOOSE r \in Range(df) : r.ts = ts).close ELSE NaN

Column(rows, name) == [i \in DOMAIN rows |-> rows[i][name]]

(***************************************************************************)
(* compute_rolling_correlation                                             *)
(***************************************************************************)
\* rolling(window).corr(other) with ddof = 1:
\* (mean(xy) - mean(x) mean(y)) * n/(n-1) / sqrt(var(x) * var(y)).
RollingCorr(x, y, i, window) ==
    LET wx == Window(x, i, window)
        wy == Window(y, i, window)
        n  == Len(wx)
        xy == [j \in DOMAIN wx |-> RMul(wx[j], wy[j])]
    IN  IF n < window THEN [k |-> "nan", num |-> NaN, rad |-> R(1)]
        ELSE LET numerator == RMul(RSub(RDiv(SumSeq(xy), R(n)),
                                        RMul(RDiv(SumSeq(wx), R(n)), RDiv(SumSeq(wy), R(n)))),
                                   RDiv(R(n), R(n - 1)))
                 denominator == Sqrt(RMul(RollingVar(x, i, window), RollingVar(y, i, window)))
             IN  DivBy(numerator, denominator)

MergeKeepsUnmatched(df1, df2) ==
    [i \in DOMAIN df1 |-> [ts |-> df1[i].ts, close |-> df1[i].close, other_close |-> At(df2, df1[i].ts)]]

\* merged: df1's index with close and df2's close at the same label, rows
\* with a NaN dropped.
Merge(df1, df2) ==
    SelectSeq([i \in DOMAIN df1 |->
                 [ts |-> df1[i].ts, close |-> df1[i].close, other_close |-> At(df2, df1[i].ts)]],
              LAMBDA r : ~IsNaN(r.close) /\ ~IsNaN(r.other_close))

compute_rolling_correlation(df1, df2, window) ==
    LET merged == Merge(df1, df2)
    IN  IF Len(merged) < window
        THEN [i \in DOMAIN merged |->
                 [ts |-> merged[i].ts, close |-> merged[i].close, other_close |-> merged[i].other_close,
                  rolling_corr |-> [k |-> "nan", num |-> NaN, rad |-> R(1)]]]
        ELSE [i \in DOMAIN merged |->
                 [ts |-> merged[i].ts, close |-> merged[i].close, other_close |-> merged[i].other_close,
                  rolling_corr |-> RollingCorr(Column(merged, "close"), Column(merged, "other_close"),
                                               i, window)]]

\* The dashboard's window slider starts at 10: a window holds two or more rows.
InitCorr ==
    /\ InitStore
    /\ call \in [fn : {"compute_rolling_correlation"}, df1 : Tables(PairCloses),
                 df2 : Tables(PairCloses), window : 2..MaxWindow]
    /\ ret = NotReturned

ComputeRollingCorrelation ==
    /\ call.fn = "compute_rolling_correlation"
    /\ ~ret.done
    /\ ret' = Returned(compute_rolling_correlation(call.df1, call.df2, call.window))
    /\ UNCHANGED <<call, storeVars>>

SpecCorr == InitCorr /\ [][ComputeRollingCorrelation]_vars

(***************************************************************************)
(* C6.                                                                     *)
(***************************************************************************)
Flat(win) == \A i, j \in DOMAIN win : win[i] = win[j]

\* C6: compute_rolling_correlation returns one row per timestamp present in
\* both tables and none for the others; rolling_corr is undefined in every
\* row when fewer than `window` rows are joined, and otherwise undefined
\* exactly in the first window-1 rows and in the rows whose window has zero
\* variance in either series.
C6_RollingCorrRows ==
    (call.fn = "compute_rolling_correlation" /\ ret.done) =>
        LET out == ret.val
            w   == call.window
        IN  /\ {out[i].ts : i \in DOMAIN out} = Index(call.df1) \cap Index(call.df2)
            /\ \A i, j \in DOMAIN out : i < j => out[i].ts < out[j].ts
            /\ \A i \in DOMAIN out : /\ out[i].close = At(call.df1, out[i].ts)
                                     /\ out[i].other_close = At(call.df2, out[i].ts)
            /\ Len(out) < w => \A i \in DOMAIN out : Undefined(out[i].rolling_corr)
            /\ Len(out) >= w =>
                 \A i \in DOMAIN out :
                     Undefined(out[i].rolling_corr) <=>
                         \/ i - 1 < w - 1
                         \/ Flat(SubSeq(Column(out, "close"), i - w + 1, i))
                         \/ Flat(SubSeq(Column(out, "other_close"), i - w + 1, i))

\* Each table has a timestamp the other lacks, two rows are joined, and the
\* correlation is undefined in the first and defined in the second.
C6_Witness ==
    /\ call.fn = "compute_rolling_correlation" /\ ret.done /\ call.window = 2
    /\ Len(ret.val) = 2
    /\ Index(call.df1) \ Index(call.df2) # {} /\ Index(call.df2) \ Index(call.df1) # {}
    /\ Undefined(ret.val[1].rolling_corr) /\ ~Undefined(ret.val[2].rolling_corr)

(***************************************************************************)
(* compute_pair_spread                                                     *)
(***************************************************************************)
Betas == {NaN, R(1), R(2)}

\* a - beta * b on two Series: pandas aligns both on the union of their
\* indexes, and a label missing from one side gives NaN.
AlignedDifference(df1, df2, beta) ==
    LET labels == Index(df1) \cup Index(df2)
    IN  [i \in 1..Cardinality(labels) |->
            LET ts == KthSmallest(labels, i)
            IN  [ts |-> ts, spread |-> RSub(At(df1, ts), RMul(beta, At(df2, ts)))]]

\* The empty frame for a NaN beta, else the frame of the column "spread".
compute_pair_spread(df1, df2, beta) ==
    IF IsNaN(beta) THEN <<>> ELSE AlignedDifference(df1, df2, beta)

InitSpread ==
    /\ InitStore
    /\ call \in [fn : {"compute_pair_spread"}, df1 : Tables(PairCloses), df2 : Tables(PairCloses),
                 beta : Betas]
    /\ ret = NotReturned

ComputePairSpread ==
    /\ call.fn = "compute_pair_spread"
    /\ ~ret.done
    /\ ret' = Returned(compute_pair_spread(call.df1, call.df2, call.beta))
    /\ UNCHANGED <<call, storeVars>>

SpecSpread == InitSpread /\ [][ComputePairSpread]_vars

\* C5 (as claimed): the spread is empty for a NaN beta, and otherwise has
\* exactly one point closeA - beta*closeB for each timestamp present in both
\* tables and no point for a timestamp present in only one of them.
C5_SpreadInnerJoin ==
    (call.fn = "compute_pair_spread" /\ ret.done) =>
        LET out == ret.val
        IN  IF IsNaN(call.beta) THEN out = <<>>
            ELSE /\ {out[i].ts : i \in DOMAIN out} = Index(call.df1) \cap Index(call.df2)
                 /\ \A i, j \in DOMAIN out : i # j => out[i].ts # out[j].ts
                 /\ \A i \in DOMAIN out :
                        out[i].spread = RSub(At(call.df1, out[i].ts),
                                             RMul(call.beta, At(call.df2, out[i].ts)))

(***************************************************************************)
(* compute_hedge_ratio                                                     *)
(***************************************************************************)
MaxMinPoints == 2

HedgeValues == {NaN, R(1), R(2)}

\* series_x.align(series_y, join="inner"): both restricted to the labels
\* they share.
AlignInner(sx, sy) ==
    [x |-> SelectSeq(sx, LAMBDA r : r.ts \in Index(sy)),
     y |-> SelectSeq(sy, LAMBDA r : r.ts \in Index(sx))]

DropNa(series) == SelectSeq(series, LAMBDA r : ~IsNaN(r.close))

NotFitted == [beta |-> NaN, fitted |-> FALSE, x |-> <<>>, y |-> <<>>]

\* sm.OLS(y_vals, add_constant(x.values)).fit().params[1] under the try:
\* arrays of different lengths raise, and so does params[1] when x is
\* constant (add_constant adds no column); both are caught and give NaN.
\* Else the least-squares slope.
OlsSlope(xv, yv) ==
    IF Len(xv) # Len(yv) \/ Flat(xv) THEN NaN
    ELSE LET n  == Len(xv)
             mx == RDiv(SumSeq(xv), R(n))
             my == RDiv(SumSeq(yv), R(n))
         IN  RDiv(SumSeq([j \in 1..n |-> RMul(RSub(xv[j], mx), RSub(yv[j], my))]),
                  SumSeq([j \in 1..n |-> RMul(RSub(xv[j], mx), RSub(xv[j], mx))]))

\* The returned float, with the two Series whose values went into the fit.
compute_hedge_ratio(series_x, series_y, min_points) ==
    LET a == AlignInner(series_x, series_y)
        x == DropNa(a.x)
        y == DropNa(a.y)
    IN  IF Len(x) < min_points \/ Len(y) < min_points THEN NotFitted
        ELSE LET beta == OlsSlope(Column(x, "close"), Column(y, "close"))
             IN  IF IsNaN(beta) THEN NotFitted
                 ELSE [beta |-> beta, fitted |-> TRUE, x |-> x, y |-> y]

InitHedge ==
    /\ InitStore
    /\ call \in [fn : {"compute_hedge_ratio"}, series_x : Tables(HedgeValues),
                 series_y : Tables(HedgeValues), min_points : 1..MaxMinPoints]
    /\ ret = NotReturned

ComputeHedgeRatio ==
    /\ call.fn = "compute_hedge_ratio"
    /\ ~ret.done
    /\ ret' = Returned(compute_hedge_ratio(call.series_x, call.series_y, call.min_points))
    /\ UNCHANGED <<call, storeVars>>

SpecHedge == InitHedge /\ [][ComputeHedgeRatio]_vars

\* The timestamps at which both series have a defined value.
PairedTimestamps(sx, sy) == {ts \in Index(sx) \cap Index(sy) : ~IsNaN(At(sx, ts)) /\ ~IsNaN(At(sy, ts))}

\* C4 (as claimed): compute_hedge_ratio returns NaN whenever fewer than
\* min_points timestamps carry a defined value of both X and Y, and a fit is
\* run only on pairs (X[t], Y[t]) of one timestamp t.
C4_HedgeNeedsPairedPoints ==
    (call.fn = "compute_hedge_ratio" /\ ret.done) =>
        /\ Cardinality(PairedTimestamps(call.series_x, call.series_y)) < call.min_points
              => IsNaN(ret.val.beta)
        /\ ret.val.fitted =>
              /\ Len(ret.val.x) = Len(ret.val.y)
              /\ \A i \in DOMAIN ret.val.x : ret.val.x[i].ts = ret.val.y[i].ts

(***************************************************************************)
(* run_adf_test                                                            *)
(***************************************************************************)
AdfMinPoints == 20

MaxAdfLen == 22

\* 0.05
FivePercent == Num(5, 100)

\* The p-values adfuller may report, those next to 0.05 among them.  The
\* test itself is statsmodels': the model takes its p-value as an input.
PValues == {R(0), Num(49, 1000), Num(50, 1000), Num(51, 1000), R(1), NaN}

\* The series made of a defined values, b NaNs and c defined values.
SeriesOf(a, b, c) == [i \in 1..(a + b + c) |-> IF i > a /\ i <= a + b THEN NaN ELSE R(i)]

AdfSeries == {SeriesOf(a, b, c) : a \in 0..MaxAdfLen, b \in 0..2, c \in 0..2}

DropNaValues(series) == SelectSeq(series, LAMBDA v : ~IsNaN(v))

InsufficientData == [error |-> TRUE, p_value |-> NaN, stationary_at_5pct |-> FALSE]

TooShortCountsNaN(series) == Len(series) < AdfMinPoints

\* series = series.dropna(); len(series) < 20
TooShort(series) == Len(DropNaValues(series)) < AdfMinPoints

\* {"error": ...} for too short a series, else the result of adfuller with
\* "stationary_at_5pct": pval < 0.05.
run_adf_test(series, pval) ==
    IF TooShort(series) THEN InsufficientData
    ELSE [error |-> FALSE, p_value |-> pval, stationary_at_5pct |-> RLt(pval, FivePercent)]

InitAdf ==
    /\ InitStore
    /\ call \in [fn : {"run_adf_test"}, series : AdfSeries]
    /\ ret = NotReturned

RunAdfTest ==
    /\ call.fn = "run_adf_test"
    /\ ~ret.done
    /\ \E pval \in PValues : ret' = Returned(run_adf_test(call.series, pval))
    /\ UNCHANGED <<call, storeVars>>

SpecAdf == InitAdf /\ [][RunAdfTest]_vars

TicksInBucket(df, b, interval) == {i \in DOMAIN df : b <= df[i].ts /\ df[i].ts < b + interval}

CandleOfBucket(df, c, interval) ==
    LET in == TicksInBucket(df, c.ts, interval)
    IN  /\ in # {}
        /\ c.ts % interval = 0
        /\ \E i \in in : (\A j \in in : df[i].ts <= df[j].ts) /\ c.open = df[i].price
        /\ \E i \in in : (\A j \in in : df[j].ts <= df[i].ts) /\ c.close = df[i].price
        /\ \E i \in in : c.high = df[i].price /\ \A j \in in : RLe(df[j].price, c.high)
        /\ \E i \in in : c.low = df[i].price /\ \A j \in in : RLe(c.low, df[j].price)
        /\ c.volume = SumSeq([k \in 1..Cardinality(in) |->
                               df[CHOOSE i \in in : Cardinality({j \in in : j < i}) = k - 1].qty])

\* C1: resample_candles returns exactly one candle per epoch-aligned bucket
\* [start, start+interval) that holds a tick, in ascending bucket order, with
\* open/close the prices of the earliest/latest tick of the bucket, high/low
\* the extreme prices and volume the sum of the quantities; tickless buckets
\* are omitted and an empty input gives an empty output.
C1_ResampleOhlcv ==
    (call.fn = "resample_candles" /\ ret.done) =>
        LET df == call.df
            out == ret.val
        IN  /\ \A i \in DOMAIN df : \E j \in DOMAIN out : out[j].ts = Bucket(df[i].ts, call.timeframe)
            /\ \A j \in DOMAIN out : CandleOfBucket(df, out[j], call.timeframe)
            /\ \A j \in DOMAIN out : j > 1 => out[j - 1].ts < out[j].ts
            /\ (df = <<>> => out = <<>>)

\* Ticks arrive out of time order and the first of two candles is made of two
\* ticks of different times and prices.
C1_Witness ==
    /\ call.fn = "resample_candles" /\ ret.done
    /\ Len(ret.val) = 2
    /\ Len(call.df) = 3
    /\ call.df[1].ts > call.df[2].ts
    /\ ret.val[1].open = call.df[2].price /\ ret.val[1].close = call.df[1].price
    /\ ret.val[1].open # ret.val[1].close

(***************************************************************************)
(* compute_spread_zscore.  spread_df is the caller's frame: call.spread_df *)
(* is that object as the caller sees it, before and after the call.        *)
(***************************************************************************)
SpreadValues == {NaN, R(1), R(2)}

\* What compute_pair_spread hands on: the empty frame, or rows of the one
\* column "spread" (NaN where a timestamp was missing from one table).
SpreadFrames ==
    {<<>>} \cup { [i \in DOMAIN t |-> [ts |-> t[i].ts, spread |-> t[i].close]] : t \in Tables(SpreadValues) }

\* spread_df["spread_zscore"] = (spread_df["spread"] - mean) / std
WithSpreadZscore(spread_df, window) ==
    LET spread == Column(spread_df, "spread")
    IN  [i \in DOMAIN spread_df |->
            [ts |-> spread_df[i].ts,
             spread |-> spread_df[i].spread,
             spread_zscore |-> DivBy(RSub(spread[i], RollingMean(spread, i, window)),
                                     RollingStd(spread, i, window))]]

InitSpreadZscore ==
    /\ InitStore
    /\ call \in [fn : {"compute_spread_zscore"}, spread_df : SpreadFrames, window : 1..MaxWindow]
    /\ ret = NotReturned

\* An empty frame is handed back as it is; otherwise the column is assigned
\* on spread_df itself (no copy is taken) and spread_df is returned.
ComputeSpreadZscore ==
    /\ call.fn = "compute_spread_zscore"
    /\ ~ret.done
    /\ IF call.spread_df = <<>>
          THEN /\ ret' = ReturnedArgument(call.spread_df, "spread_df")
               /\ call' = call
          ELSE /\ call' = [call EXCEPT !.spread_df = WithSpreadZscore(call.spread_df, call.window)]
               /\ ret' = ReturnedArgument(call'.spread_df, "spread_df")
    /\ UNCHANGED storeVars

SpecSpreadZscore == InitSpreadZscore /\ [][ComputeSpreadZscore]_vars

(***************************************************************************)
(* The analytics module: one call of any of its seven functions.           *)
(***************************************************************************)
InitAnalytics ==
    \/ InitResample
    \/ InitZscore
    \/ InitCorr
    \/ InitHedge
    \/ InitSpread
    \/ InitSpreadZscore
    \/ InitAdf

NextAnalytics ==
    \/ ResampleCandles
    \/ ComputeZscore
    \/ ComputeRollingCorrelation
    \/ ComputeHedgeRatio
    \/ ComputePairSpread
    \/ ComputeSpreadZscore
    \/ RunAdfTest

SpecAnalytics == InitAnalytics /\ [][NextAnalytics]_vars

\* C11 (as claimed): a call of an analytics function leaves every series and
\* table passed to it as it was (same rows, same columns, same values) and
\* returns a new structure, never one of its arguments.
C11_AnalyticsPure ==
    [][(~ret.done /\ ret'.done) => (call' = call /\ ret'.obj = "new")]_vars

\* The same, of the six functions other than compute_spread_zscore.
C11_OthersPure ==
    [][(~ret.done /\ ret'.done /\ call.fn # "compute_spread_zscore")
          => (call' = call /\ ret'.obj = "new")]_vars

\* The same, of the argument alone: the frame passed in is left as it was.
C11_ArgumentKept ==
    [][(~ret.done /\ ret'.done) => call' = call]_vars

=============================================================================
